---- MODULE Spec2Model ----
(***************************************************************************)
(* Discrete-event model of the PLL register interface (pll::bus_process),  *)
(* the timed lock sequence (pll::locking_process), the sc_clock and the    *)
(* signals of sc_main, driven by a clocked stimulus thread that uses the   *)
(* operations of pmu_tb (write_to_pll, reset.write).                       *)
(*                                                                         *)
(* One simulated instant is a sequence of delta cycles: the runnable       *)
(* processes are run one at a time in any order (evaluate), then the       *)
(* written signals are committed and the delta notifications delivered     *)
(* (UpdateDelta); when nothing is left, time jumps to the next timed       *)
(* notification (AdvanceTime).                                             *)
(***************************************************************************)
EXTENDS Integers, FiniteSets, Sequences, TLC

\* ---- program constants --------------------------------------------------
PLL_REG_N_ADDR == 0
PLL_REG_M_ADDR == 4
PLL_REG_OD_ADDR == 8
PLL_REG_CTRL_ADDR == 12
\* sc_clock clk("clk", 10, SC_NS): period 10 ns, duty 0.5, first edge rising at 0
CLK_PERIOD == 10
CLK_HALF == CLK_PERIOD \div 2
\* wait(500, SC_NS)
LOCK_DELAY == 500
\* width of sc_uint<8> reg_m, reg_n, reg_od
REG_WIDTH == 8
\* const double F_REF_MHZ = 25.0, and the 1000.0 of period_ns
F_REF_MHZ == 25
NS_PER_US == 1000
\* run_test: wait(5), the values it programs, wait(sc_time(20, SC_US), ...),
\* sc_time(850, SC_NS)
RESET_CYCLES == 5
n_val == 1
m_val == 32
od_val == 1
TEST_TIMEOUT == 20000
TEST_END == 850

\* ---- bounds ------------------------------------------------------------
\* last simulated instant explored (ns)
MaxTime == 1030
\* activations of the stimulus thread that issue an operation, per run
MaxLockSteps == 5
MaxRegSteps == 3

NoTime == 0 - 1
Past == 0 - 2
NoPeriod == [kind |-> "none", num |-> 0, den |-> 1]

\* ---- stimulus alphabet -------------------------------------------------
\* operations of the stimulus thread: write_to_pll(a, d), reset.write(b),
\* reset.write(b) directly followed by write_to_pll(a, d), or nothing but a
\* wait
Wr(a, d) == <<"write", a, d>>
Rst(b) == <<"reset", b>>
RstWr(b, a, d) == <<"reset_write", b, a, d>>
Idle == <<"idle">>
\* an address outside the register map
UnmappedAddr == PLL_REG_CTRL_ADDR + 4
\* control writes and reset changes
LockOps ==
  { Wr(PLL_REG_CTRL_ADDR, 1), Wr(PLL_REG_CTRL_ADDR, 0),
    Rst(TRUE), Rst(FALSE), RstWr(FALSE, PLL_REG_CTRL_ADDR, 1),
    RstWr(TRUE, PLL_REG_CTRL_ADDR, 1), Idle }
\* register writes, control writes and reset changes
RegOps ==
  { Wr(PLL_REG_N_ADDR, 1), Wr(PLL_REG_M_ADDR, 32), Wr(PLL_REG_OD_ADDR, 1),
    Wr(PLL_REG_CTRL_ADDR, 1), Wr(PLL_REG_CTRL_ADDR, 0), Wr(UnmappedAddr, 1),
    Rst(TRUE), Rst(FALSE), RstWr(FALSE, PLL_REG_M_ADDR, 32),
    RstWr(TRUE, PLL_REG_CTRL_ADDR, 1), Idle }
\* the order of run_test: reset, release, N = 1, M = 32, OD = 1, CTRL = 1
SeqScript ==
  << Rst(TRUE), Rst(FALSE), Wr(PLL_REG_N_ADDR, 1), Wr(PLL_REG_M_ADDR, 32),
     Wr(PLL_REG_OD_ADDR, 1), Wr(PLL_REG_CTRL_ADDR, 1) >>
\* clock cycles the stimulus may wait after an operation: wait(), wait(5),
\* and a wait that ends on the last edge before a lock delay expires
LockWaits == {1, 49}
RegWaits == {1}
SeqWaits == {1, 5}

Signals == {"clk", "reset", "bus_addr", "bus_wdata", "bus_we", "locked"}

VARIABLES
  now,            \* sc_time_stamp(), ns
  cur,            \* sc_signal::m_cur_val of every signal
  new,            \* sc_signal::m_new_val of every signal
  reg_n, reg_m, reg_od, pll_enable,   \* pll private state
  lock_pc,        \* suspension point of locking_process
  lock_deadline,  \* timeout of its wait(500, SC_NS), NoTime when not armed
  clk_next,       \* time of the next edge of clk, NoTime while the edge runs
  runnable,       \* processes made runnable for the current evaluate phase
  delta_events,   \* events with a pending delta notification
  tb_pc,          \* suspension point of the stimulus thread
  tb_wait,        \* clock edges left of its wait(n)
  tb_steps,       \* activations of the stimulus thread that chose an operation
  tb_deadline,    \* timeout of its timed wait, NoTime when not armed
  tb_report,      \* verdict printed by run_test: "none", "SUCCESS" or "FAILED"
  period_ns,      \* output period printed by locking_process, NoPeriod before
  f_out_mhz,      \* output frequency it computed for that, NoPeriod before
  write_check,    \* whether the kernel checks for a second driver of a signal
  writers,        \* processes that have written the signal locked
  sim_error       \* the simulation was aborted by a kernel error report

\* ---- observers: they record what the code did, and steer nothing --------
VARIABLES
  lastBus,        \* branch taken by the latest invocation of bus_process
  enT,            \* time of the latest CTRL=1 decode, while its 500 ns window is open
  distEn,         \* a disable decode or reset = true happened since enT
  attT,           \* as enT, for the latest CTRL=1 decode that found
                  \* locking_process outside its timed wait
  distAtt,        \* a disable decode or reset = true happened since attT
  rstInAtt,       \* reset became true strictly inside (attT, attT + 500)
  roseNow,        \* locked went false -> true at the current instant
  disInWin,       \* the latest CTRL decode is a disable that fell strictly
                  \* inside the window of the latest CTRL=1 decode
  rstPhase,       \* "never", "asserted" or "released": history of reset
  wrSinceRst,     \* a write was decoded since reset last changed
  atRst,          \* what the device held when reset last became true
  lockedChg,      \* changes of locked at the current instant
  lastExp,        \* what the latest expiry of the timed wait did: "none" yet,
                  \* "asserted" (locked.write(true)) or "skipped"
  attFrom,        \* what the decode at attT found: "locked", "skipped" (locked
                  \* false after a skipped expiry) or "idle"; "none" before
  ref,            \* the device as it is when, in every round, the runnable
                  \* processes run in the fixed order bus_process,
                  \* locking_process
  pendEn,         \* times T of the CTRL=1 decodes with now <= T + 500 and no
                  \* disable decode and no reset = true since T
  enTimes,        \* times T of all the CTRL=1 decodes with now <= T + 500
  ctrlNow,        \* bus_process decoded a CTRL write at the current instant
  rstNow,         \* reset became true at the current instant
  firstEn,        \* time of the first CTRL=1 decode since construction or since
                  \* reset last became true: NoTime when there is none, Past
                  \* once 500 ns have gone by since
  pendCalls       \* the calls of write_to_pll (time, address, data) that
                  \* bus_process has not decoded, until the second clock edge
                  \* after the call

core == <<now, cur, new, reg_n, reg_m, reg_od, pll_enable, lock_pc,
          lock_deadline, clk_next, runnable, delta_events, tb_pc, tb_wait, tb_steps,
          tb_deadline, tb_report, period_ns, f_out_mhz, write_check, writers, sim_error>>
\* what is recorded of the device, and of the device and the stimulus
obsDev == <<lastBus, enT, distEn, attT, distAtt, rstInAtt, roseNow, disInWin,
            rstPhase, wrSinceRst, atRst, lockedChg, lastExp, attFrom, ref,
            ctrlNow, rstNow,
            pendEn, enTimes, firstEn>>
obs == <<obsDev, pendCalls>>
vars == <<core, obs>>

\* variant: the register keeps the whole 32-bit value
ToRegWide(d) == d

\* sc_uint<8> assignment from sc_uint<32>: the low 8 bits are kept
ToReg(d) == d % (2 ^ REG_WIDTH)

Min(S) == CHOOSE x \in S : \A y \in S : x <= y

\* the reference device after the initialization phase: bus_process has
\* found nothing to do and locking_process is suspended in its wait()
RefInit ==
  [n |-> 0, m |-> 0, od |-> 0, en |-> FALSE, pc |-> "wait_static",
   dl |-> NoTime, lnew |-> FALSE, lcur |-> FALSE, start |-> FALSE,
   writers |-> {}, err |-> FALSE, chg |-> 0]

Init ==
  /\ now = 0
  /\ cur = [s \in Signals |->
              IF s \in {"bus_addr", "bus_wdata"} THEN 0 ELSE FALSE]
  /\ new = cur
  /\ reg_n = 0 /\ reg_m = 0 /\ reg_od = 0
  /\ pll_enable = FALSE
  /\ lock_pc = "start"
  /\ lock_deadline = NoTime
  /\ clk_next = NoTime
  /\ runnable = {"bus", "lock", "tb"}
  /\ delta_events = {"clk_edge"}
  /\ tb_pc = "start"
  /\ tb_wait = 0
  /\ tb_steps = 0
  /\ tb_deadline = NoTime
  /\ tb_report = "none"
  /\ period_ns = NoPeriod
  /\ f_out_mhz = NoPeriod
  /\ write_check \in BOOLEAN
  /\ writers = {}
  /\ sim_error = FALSE
  /\ lastBus = "none"
  /\ enT = NoTime /\ distEn = FALSE
  /\ attT = NoTime /\ distAtt = FALSE /\ rstInAtt = FALSE
  /\ roseNow = FALSE
  /\ disInWin = FALSE
  /\ rstPhase = "never"
  /\ wrSinceRst = FALSE
  /\ atRst = [dirty |-> FALSE, locked |-> FALSE]
  /\ lockedChg = 0
  /\ ctrlNow = FALSE
  /\ rstNow = FALSE
  /\ lastExp = "none"
  /\ attFrom = "none"
  /\ ref = RefInit
  /\ pendEn = {}
  /\ enTimes = {}
  /\ firstEn = NoTime
  /\ pendCalls = <<>>

\* a second process writing a signal of the default SC_ONE_WRITER policy is
\* reported as an error (E115) when the kernel's write check is enabled
Conflict(p) == write_check /\ writers # {} /\ writers # {p}

\* the simulated instant is over: nothing runnable, no update requested, no
\* delta notification pending (the next step can only advance time)
InstantEnd ==
  /\ runnable = {} /\ new = cur /\ delta_events = {} /\ ~sim_error

\* ---- pll::bus_process (SC_METHOD, sensitive << clk.pos() << reset) -------
\* variant: the reset branch forgets reg_m
ResetRegsKeepsM == [n |-> 0, m |-> reg_m, od |-> 0, en |-> FALSE]

\* reg_m = 0; reg_n = 0; reg_od = 0; pll_enable = false;
ResetRegs == [n |-> 0, m |-> 0, od |-> 0, en |-> FALSE]

\* variant: the target is selected by the register index (addr / 4) mod 4
DecodeCaseByIndex(addr) ==
  CASE (addr \div 4) % 4 = 0 -> "N"
    [] (addr \div 4) % 4 = 1 -> "M"
    [] (addr \div 4) % 4 = 2 -> "OD"
    [] OTHER -> "CTRL"

\* switch (bus_addr.read()): the case label selected, "none" without a match
DecodeCase(addr) ==
  CASE addr = PLL_REG_N_ADDR -> "N"
    [] addr = PLL_REG_M_ADDR -> "M"
    [] addr = PLL_REG_OD_ADDR -> "OD"
    [] addr = PLL_REG_CTRL_ADDR -> "CTRL"
    [] OTHER -> "none"

\* variant: the bus write is handled before the reset check
InResetUnlessWrite(rst, we) == rst = TRUE /\ we = FALSE

\* if (reset.read() == true) ... return; comes before the bus write handling
InReset(rst, we) == rst = TRUE

\* variant: the condition on the control data is inverted
IsEnableInverted(data) == data # 1

\* if (bus_wdata.read() == 1)
IsEnable(data) == data = 1

\* variant: the enable branch does not notify the start event
CtrlEnableNoNotify(regs) ==
  [regs |-> [regs EXCEPT !.en = TRUE], notify |-> FALSE, wlocked |-> FALSE,
   branch |-> "EN"]

\* pll_enable = true; start_locking_event.notify(SC_ZERO_TIME);
CtrlEnable(regs) ==
  [regs |-> [regs EXCEPT !.en = TRUE], notify |-> TRUE, wlocked |-> FALSE,
   branch |-> "EN"]

\* variant: the disable branch leaves locked as it is
CtrlDisableKeepsLocked(regs) ==
  [regs |-> [regs EXCEPT !.en = FALSE], notify |-> FALSE, wlocked |-> FALSE,
   branch |-> "DIS"]

\* pll_enable = false; locked.write(false);
CtrlDisable(regs) ==
  [regs |-> [regs EXCEPT !.en = FALSE], notify |-> FALSE, wlocked |-> TRUE,
   branch |-> "DIS"]

\* variant: a divider write stores the value in all three registers
StoreRegAll(regs, c, d) ==
  [regs EXCEPT !.n = ToReg(d), !.m = ToReg(d), !.od = ToReg(d)]

\* case PLL_REG_N_ADDR: reg_n = bus_wdata.read(); and the same for M and OD
StoreReg(regs, c, d) ==
  CASE c = "N" -> [regs EXCEPT !.n = ToReg(d)]
    [] c = "M" -> [regs EXCEPT !.m = ToReg(d)]
    [] c = "OD" -> [regs EXCEPT !.od = ToReg(d)]

\* variant: a divider write invalidates the lock (locked.write(false))
StoreDropsLock(c) == TRUE

\* the divider cases assign the register and write no signal
StoreWritesLocked(c) == FALSE

\* variant: a read returns the value written in the current round
BusReadsPending == new

\* reset.read(), bus_we.read(), bus_addr.read(), bus_wdata.read(): the
\* current value of the signal, not the one written in this round
BusReads == cur

\* one invocation of bus_process on the values it reads: the registers it
\* leaves, whether it notifies start_locking_event, whether it writes
\* locked (false), and the branch it took
BusOn(regs, in) ==
  LET a == in.bus_addr
      d == in.bus_wdata
      c == DecodeCase(a)
      quiet(r, b) == [regs |-> r, notify |-> FALSE, wlocked |-> FALSE, branch |-> b]
  IN  IF InReset(in.reset, in.bus_we)
        THEN quiet(ResetRegs, IF in.bus_we THEN "reset_we" ELSE "reset")
      ELSE IF in.bus_we = TRUE
        THEN CASE c \in {"N", "M", "OD"} ->
                    [quiet(StoreReg(regs, c, d), c)
                       EXCEPT !.wlocked = StoreWritesLocked(c)]
               [] c = "CTRL" ->
                    IF IsEnable(d) THEN CtrlEnable(regs) ELSE CtrlDisable(regs)
               [] OTHER -> quiet(regs, "unmapped")
      ELSE quiet(regs, "idle")

\* the invocation on the state of the device
BusResult ==
  BusOn([n |-> reg_n, m |-> reg_m, od |-> reg_od, en |-> pll_enable], BusReads)

\* the write that bus_process reads is the oldest call not yet decoded, made
\* one clock period ago
IsOldestCall ==
  /\ pendCalls # <<>>
  /\ Head(pendCalls) = [t |-> now - CLK_PERIOD, a |-> BusReads.bus_addr,
                        d |-> BusReads.bus_wdata]

InWindow(t) == t # NoTime /\ t < now /\ now < t + LOCK_DELAY

BusProcess ==
  /\ "bus" \in runnable /\ ~sim_error
  /\ LET r == BusResult
         decoded == r.branch \notin {"reset", "reset_we", "idle"}
         fresh == r.branch = "EN" /\ lock_pc # "wait_timed"
     IN  /\ reg_n' = r.regs.n /\ reg_m' = r.regs.m /\ reg_od' = r.regs.od
         /\ pll_enable' = r.regs.en
         /\ delta_events' = IF r.notify THEN delta_events \cup {"start"}
                                       ELSE delta_events
         /\ IF r.wlocked
              THEN /\ writers' = writers \cup {"bus"}
                   /\ IF Conflict("bus")
                        THEN sim_error' = TRUE /\ new' = new
                        ELSE sim_error' = FALSE
                             /\ new' = [new EXCEPT !.locked = FALSE]
              ELSE UNCHANGED <<writers, sim_error, new>>
         /\ lastBus' = r.branch
         /\ ctrlNow' = (ctrlNow \/ r.branch \in {"EN", "DIS"})
         /\ wrSinceRst' = (wrSinceRst \/ decoded)
         /\ enT' = IF r.branch = "EN" THEN now ELSE enT
         /\ distEn' = CASE r.branch = "EN" -> FALSE
                        [] r.branch = "DIS" -> enT # NoTime
                        [] OTHER -> distEn
         /\ attT' = IF fresh THEN now ELSE attT
         /\ distAtt' = CASE fresh -> FALSE
                         [] r.branch = "DIS" -> attT # NoTime
                         [] OTHER -> distAtt
         /\ rstInAtt' = IF fresh THEN FALSE ELSE rstInAtt
         /\ pendEn' = CASE r.branch = "EN" -> pendEn \cup {now}
                        [] r.branch = "DIS" -> {}
                        [] OTHER -> pendEn
         /\ enTimes' = IF r.branch = "EN" THEN enTimes \cup {now} ELSE enTimes
         /\ firstEn' = IF r.branch = "EN" /\ firstEn = NoTime THEN now
                                                              ELSE firstEn
         /\ pendCalls' = IF decoded /\ IsOldestCall THEN Tail(pendCalls)
                                                       ELSE pendCalls
         /\ attFrom' = CASE fresh /\ cur.locked = TRUE -> "locked"
                         [] fresh /\ lastExp = "skipped" -> "skipped"
                         [] fresh -> "idle"
                         [] OTHER -> attFrom
         /\ disInWin' = CASE r.branch = "EN" -> FALSE
                          [] r.branch = "DIS" -> InWindow(enT)
                          [] OTHER -> disInWin
  /\ runnable' = runnable \ {"bus"}
  /\ UNCHANGED <<now, cur, lock_pc, lock_deadline, clk_next, tb_pc, tb_wait, tb_steps,
                 tb_deadline, tb_report, period_ns, f_out_mhz,
                 write_check, roseNow, rstPhase, atRst,
                 lockedChg, lastExp, ref, rstNow>>

\* ---- pll::locking_process (SC_THREAD, sensitive << reset << start_locking_event)
\* variant: the timed wait is one clock period too long
LockTimeoutLate(t) == t + LOCK_DELAY + CLK_PERIOD

\* the timeout armed by wait(500, SC_NS) when called at time t
LockTimeout(t) == t + LOCK_DELAY

\* variant: the reset branch leaves locked as it is
LockOnResetKeeps == cur.locked

\* if (reset.read() == true) locked.write(false): the value written
LockOnReset == FALSE

\* variant: the lock sequence does not invalidate the previous lock
LockOnEntryKeeps == cur.locked

\* else if (pll_enable) locked.write(false): the value written on entry
LockOnEntry == FALSE

\* variant: pll_enable is not checked again after the timed wait
ExpiryAlways(en) == TRUE

\* if (pll_enable) after the timed wait: whether locked.write(true) is reached
ExpiryAsserts(en) == en

\* variant: the enable is consumed by the lock attempt it started
ExpiryClearsEnable(en) == FALSE

\* pll_enable after the timed wait: locking_process reads it (if (pll_enable))
\* and assigns nothing to it
ExpiryLeavesEnable(en) == en

\* a write of v to locked by locking_process
LockWritesLocked(v) ==
  /\ writers' = writers \cup {"lock"}
  /\ IF Conflict("lock")
       THEN sim_error' = TRUE /\ new' = new
       ELSE sim_error' = FALSE /\ new' = [new EXCEPT !.locked = v]

\* first activation: the thread runs up to its wait()
LockStart ==
  /\ "lock" \in runnable /\ ~sim_error
  /\ lock_pc = "start"
  /\ lock_pc' = "wait_static"
  /\ runnable' = runnable \ {"lock"}
  /\ UNCHANGED <<now, cur, new, reg_n, reg_m, reg_od, pll_enable,
                 lock_deadline, clk_next, delta_events, tb_pc, tb_wait, tb_steps,
                 tb_deadline, tb_report, period_ns, f_out_mhz,
                 write_check, writers, sim_error, obs>>

\* resumed from wait(): reset branch, lock sequence entry, or back to wait()
LockWake ==
  /\ "lock" \in runnable /\ ~sim_error
  /\ lock_pc = "wait_static"
  /\ IF cur.reset = TRUE
       THEN /\ LockWritesLocked(LockOnReset)
            /\ UNCHANGED <<lock_pc, lock_deadline>>
       ELSE IF pll_enable
         THEN /\ LockWritesLocked(LockOnEntry)
              /\ lock_pc' = "wait_timed"
              /\ lock_deadline' = LockTimeout(now)
         ELSE UNCHANGED <<lock_pc, lock_deadline, writers, sim_error, new>>
  /\ runnable' = runnable \ {"lock"}
  /\ UNCHANGED <<now, cur, reg_n, reg_m, reg_od, pll_enable, clk_next,
                 delta_events, tb_pc, tb_wait, tb_steps, tb_deadline, tb_report, period_ns, f_out_mhz,
                 write_check, obs>>

\* variant: the quotient is taken on integers, where a zero divisor traps
DiagnosticInt(m, n, od) ==
  IF n * od = 0 \/ m = 0
    THEN [kind |-> "trap", num |-> 0, den |-> 1]
    ELSE [kind |-> "finite", num |-> NS_PER_US * (n * od), den |-> F_REF_MHZ * m]

\* double f_out_mhz = (F_REF_MHZ * reg_m) / (reg_n * reg_od);
\* in double arithmetic: x / 0 is infinite, 0 / 0 is not a number; a finite
\* quotient is kept as the fraction num / den
FOut(m, n, od) ==
  CASE n * od = 0 /\ m = 0 -> [kind |-> "nan", num |-> 0, den |-> 1]
    [] n * od = 0 -> [kind |-> "inf", num |-> 0, den |-> 1]
    [] OTHER -> [kind |-> "finite", num |-> F_REF_MHZ * m, den |-> n * od]

\* variant: the period is left in microseconds (1 / f_out_mhz)
PeriodOfMicro(f) ==
  CASE f.kind = "nan" -> [kind |-> "nan", num |-> 0, den |-> 1]
    [] f.kind = "inf" -> [kind |-> "finite", num |-> 0, den |-> 1]
    [] f.num = 0 -> [kind |-> "inf", num |-> 0, den |-> 1]
    [] OTHER -> [kind |-> "finite", num |-> f.den, den |-> f.num]

\* double period_ns = 1000.0 / f_out_mhz;
\* 1000 / inf is 0, 1000 / 0 is infinite, 1000 / nan is not a number
PeriodOf(f) ==
  CASE f.kind = "nan" -> [kind |-> "nan", num |-> 0, den |-> 1]
    [] f.kind = "inf" -> [kind |-> "finite", num |-> 0, den |-> 1]
    [] f.num = 0 -> [kind |-> "inf", num |-> 0, den |-> 1]
    [] OTHER -> [kind |-> "finite", num |-> NS_PER_US * f.den, den |-> f.num]

\* the two lines of the diagnostic: the period for the registers m, n, od
Diagnostic(m, n, od) == PeriodOf(FOut(m, n, od))

\* resumed by the timeout of wait(500, SC_NS)
LockExpire ==
  /\ "lock" \in runnable /\ ~sim_error
  /\ lock_pc = "wait_timed"
  /\ LET d == Diagnostic(reg_m, reg_n, reg_od)
     IN  IF ExpiryAsserts(pll_enable)
           THEN IF d.kind = "trap"
                  THEN /\ sim_error' = TRUE
                       /\ UNCHANGED <<writers, new, period_ns, f_out_mhz>>
                  ELSE /\ LockWritesLocked(TRUE)
                       /\ f_out_mhz' = FOut(reg_m, reg_n, reg_od)
                       /\ period_ns' = d
           ELSE UNCHANGED <<writers, sim_error, new, period_ns, f_out_mhz>>
  /\ lastExp' = IF ExpiryAsserts(pll_enable) THEN "asserted" ELSE "skipped"
  /\ pll_enable' = ExpiryLeavesEnable(pll_enable)
  /\ lock_pc' = "wait_static"
  /\ lock_deadline' = NoTime
  /\ runnable' = runnable \ {"lock"}
  /\ UNCHANGED <<now, cur, reg_n, reg_m, reg_od, clk_next,
                 delta_events, tb_pc, tb_wait, tb_steps, tb_deadline, tb_report,
                 write_check, lastBus, enT, distEn, attT, distAtt, rstInAtt,
                 roseNow, disInWin, rstPhase, wrSinceRst, atRst, lockedChg,
                 attFrom, ref, pendEn, enTimes, firstEn, pendCalls,
                 ctrlNow, rstNow>>

LockingProcess == LockStart \/ LockWake \/ LockExpire

\* ---- the same processes run in a fixed order ---------------------------
\* a write of v to locked by process p, on the reference device s
RefWrite(s, p, v) ==
  IF write_check /\ s.writers # {} /\ s.writers # {p}
    THEN [s EXCEPT !.writers = @ \cup {p}, !.err = TRUE]
    ELSE [s EXCEPT !.writers = @ \cup {p}, !.lnew = v]

\* bus_process on the reference device s, reading the signal values in
RefBus(s, in) ==
  LET r == BusOn([n |-> s.n, m |-> s.m, od |-> s.od, en |-> s.en], in)
      s1 == [s EXCEPT !.n = r.regs.n, !.m = r.regs.m, !.od = r.regs.od,
                      !.en = r.regs.en, !.start = (@ \/ r.notify)]
  IN  IF r.wlocked THEN RefWrite(s1, "bus", FALSE) ELSE s1

\* locking_process on the reference device s, resumed at time t from its
\* wait() or from its wait(500, SC_NS)
RefLock(s, in, t) ==
  IF s.pc = "wait_static"
    THEN IF in.reset = TRUE
           THEN RefWrite(s, "lock", LockOnReset)
         ELSE IF s.en
           THEN [RefWrite(s, "lock", LockOnEntry)
                   EXCEPT !.pc = "wait_timed", !.dl = LockTimeout(t)]
         ELSE s
    ELSE [(IF ExpiryAsserts(s.en) THEN RefWrite(s, "lock", TRUE) ELSE s)
            EXCEPT !.pc = "wait_static", !.dl = NoTime]

\* one evaluation phase of the reference device: the processes of run, first
\* bus_process, then locking_process
RefRound(s, run, in, t) ==
  LET s1 == IF "bus" \in run THEN RefBus(s, in) ELSE s
  IN  IF "lock" \in run /\ ~s1.err THEN RefLock(s1, in, t) ELSE s1

\* update phase of the reference device and its next evaluation phase, on
\* the signal values in committed by the update
RefDelta(s, posedge, resetChg, stopping, in, t) ==
  LET c == [s EXCEPT !.lcur = s.lnew, !.start = FALSE,
                     !.chg = IF s.lnew # s.lcur THEN @ + 1 ELSE @]
      run == (IF posedge \/ resetChg THEN {"bus"} ELSE {})
             \cup (IF s.pc = "wait_static" /\ (resetChg \/ s.start)
                     THEN {"lock"} ELSE {})
  IN  IF stopping \/ s.err THEN c ELSE RefRound(c, run, in, t)

\* the reference device when time advances to t
RefAdvance(s, in, t) ==
  LET c == [s EXCEPT !.chg = 0]
      run == IF s.pc = "wait_timed" /\ s.dl = t THEN {"lock"} ELSE {}
  IN  RefRound(c, run, in, t)

\* ---- sc_clock clk("clk", 10, SC_NS) ------------------------------------
\* the edge process of the clock: toggles clk and schedules the next edge
ClockEdge ==
  /\ "clk" \in runnable /\ ~sim_error
  /\ new' = [new EXCEPT !.clk = ~cur.clk]
  /\ clk_next' = now + CLK_HALF
  /\ runnable' = runnable \ {"clk"}
  /\ UNCHANGED <<now, cur, reg_n, reg_m, reg_od, pll_enable, lock_pc,
                 lock_deadline, delta_events, tb_pc, tb_wait, tb_steps, tb_deadline, tb_report, period_ns, f_out_mhz,
                 write_check,
                 writers, sim_error, obs>>

\* ---- stimulus thread (SC_THREAD, sensitive << clk.pos()) ---------------
\* variant: write_to_pll does not raise the write-enable
WriteToPllNoEnable(nw, a, d) ==
  [nw EXCEPT !.bus_addr = a, !.bus_wdata = d]

\* void pmu_tb::write_to_pll(addr, data), up to its wait()
WriteToPll(nw, a, d) ==
  [nw EXCEPT !.bus_addr = a, !.bus_wdata = d, !.bus_we = TRUE]

\* the calls of write_to_pll not yet decoded, with the one of (a, d) made now
Called(a, d) == Append(pendCalls, [t |-> now, a |-> a, d |-> d])

\* the signal writes of one activation, in program order: the
\* bus_we.write(false) that ends a write_to_pll, then the operation op
TbWrites(nw, owed, op) ==
  LET n1 == IF owed THEN [nw EXCEPT !.bus_we = FALSE] ELSE nw
  IN  CASE op[1] = "write" -> WriteToPll(n1, op[2], op[3])
        [] op[1] = "reset" -> [n1 EXCEPT !.reset = op[2]]
        [] op[1] = "reset_write" ->
             WriteToPll([n1 EXCEPT !.reset = op[2]], op[3], op[4])
        [] OTHER -> n1

\* one activation of the stimulus thread: it issues one operation of ops (the
\* next one of script, when a script is given) and waits k cycles, k in waits
\* (one cycle inside write_to_pll); after limit operations it returns
Stimulus(script, ops, waits, limit) ==
  /\ "tb" \in runnable /\ ~sim_error
  /\ \/ /\ tb_pc = "start"
        /\ tb_pc' = "wait" /\ tb_wait' = 1
        /\ UNCHANGED <<new, tb_steps, pendCalls>>
     \/ /\ tb_pc \in {"wait", "wait_we"}
        /\ tb_steps >= limit
        /\ new' = TbWrites(new, tb_pc = "wait_we", Idle)
        /\ tb_pc' = "done" /\ tb_wait' = 0
        /\ UNCHANGED <<tb_steps, pendCalls>>
     \/ /\ tb_pc \in {"wait", "wait_we"}
        /\ tb_steps < limit
        /\ \E op \in ops, k \in waits :
             /\ script # <<>> => op = script[tb_steps + 1]
             /\ op[1] \in {"reset", "reset_write"} => op[2] # cur.reset
             /\ op[1] \in {"write", "reset_write"} => k = 1
             /\ new' = TbWrites(new, tb_pc = "wait_we", op)
             /\ tb_pc' = IF op[1] \in {"write", "reset_write"}
                           THEN "wait_we" ELSE "wait"
             /\ tb_wait' = k
             /\ tb_steps' = tb_steps + 1
             /\ pendCalls' = CASE op[1] = "write" -> Called(op[2], op[3])
                              [] op[1] = "reset_write" -> Called(op[3], op[4])
                              [] OTHER -> pendCalls
  /\ runnable' = runnable \ {"tb"}
  /\ UNCHANGED <<now, cur, reg_n, reg_m, reg_od, pll_enable, lock_pc,
                 lock_deadline, clk_next, delta_events, tb_deadline, tb_report, period_ns, f_out_mhz,
                 write_check, writers,
                 sim_error, obsDev>>

\* ---- pmu_tb::run_test (SC_THREAD, sensitive << clk.pos()) ---------------
\* sc_time is an unsigned 64-bit count: a - b with b > a wraps around to
\* 2^64 - (b - a), kept here as <<"wrapped", b - a>>
TimeSub(a, b) == IF a >= b THEN <<"plain", a - b>> ELSE <<"wrapped", b - a>>

\* t + d as the kernel computes the time of a timed notification, again
\* modulo 2^64: a wrapped d leads back to a time before t
TimeAdd(t, d) == IF d[1] = "plain" THEN t + d[2] ELSE t - d[2]

\* variant: the verdict does not look at pll_locked
VerdictUnchecked(locked) == "SUCCESS"

\* if (pll_locked.read() == true) SUCCESS else FAILED
Verdict(locked) == IF locked = TRUE THEN "SUCCESS" ELSE "FAILED"

\* one activation of run_test, from the wait it was suspended in to the next
\* one; the values written are drawn from nvals, mvals, odvals and ctrlvals
RunTest(nvals, mvals, odvals, ctrlvals) ==
  /\ "tb" \in runnable /\ ~sim_error
  /\ \/ /\ tb_pc = "start"
        /\ tb_pc' = "rt_reset" /\ tb_wait' = 1
        /\ UNCHANGED <<new, tb_deadline, tb_report, pendCalls>>
     \/ /\ tb_pc = "rt_reset"
        /\ new' = [new EXCEPT !.reset = TRUE]
        /\ tb_pc' = "rt_release" /\ tb_wait' = RESET_CYCLES
        /\ UNCHANGED <<tb_deadline, tb_report, pendCalls>>
     \/ /\ tb_pc = "rt_release"
        /\ new' = [new EXCEPT !.reset = FALSE]
        /\ tb_pc' = "rt_config" /\ tb_wait' = 1
        /\ UNCHANGED <<tb_deadline, tb_report, pendCalls>>
     \/ /\ tb_pc = "rt_config"
        /\ \E n \in nvals :
             /\ new' = WriteToPll(new, PLL_REG_N_ADDR, n)
             /\ pendCalls' = Called(PLL_REG_N_ADDR, n)
        /\ tb_pc' = "rt_n" /\ tb_wait' = 1
        /\ UNCHANGED <<tb_deadline, tb_report>>
     \/ /\ tb_pc = "rt_n"
        /\ \E m \in mvals :
             /\ new' = WriteToPll([new EXCEPT !.bus_we = FALSE], PLL_REG_M_ADDR, m)
             /\ pendCalls' = Called(PLL_REG_M_ADDR, m)
        /\ tb_pc' = "rt_m" /\ tb_wait' = 1
        /\ UNCHANGED <<tb_deadline, tb_report>>
     \/ /\ tb_pc = "rt_m"
        /\ \E od \in odvals :
             /\ new' = WriteToPll([new EXCEPT !.bus_we = FALSE], PLL_REG_OD_ADDR, od)
             /\ pendCalls' = Called(PLL_REG_OD_ADDR, od)
        /\ tb_pc' = "rt_od" /\ tb_wait' = 1
        /\ UNCHANGED <<tb_deadline, tb_report>>
     \/ /\ tb_pc = "rt_od"
        /\ \E c \in ctrlvals :
             /\ new' = WriteToPll([new EXCEPT !.bus_we = FALSE], PLL_REG_CTRL_ADDR, c)
             /\ pendCalls' = Called(PLL_REG_CTRL_ADDR, c)
        /\ tb_pc' = "rt_ctrl" /\ tb_wait' = 1
        /\ UNCHANGED <<tb_deadline, tb_report>>
     \/ /\ tb_pc = "rt_ctrl"
        /\ new' = [new EXCEPT !.bus_we = FALSE]
        /\ tb_pc' = "rt_observe" /\ tb_wait' = 0
        /\ tb_deadline' = now + TEST_TIMEOUT
        /\ UNCHANGED <<tb_report, pendCalls>>
     \/ /\ tb_pc = "rt_observe"
        /\ tb_report' = Verdict(cur.locked)
        /\ tb_pc' = "rt_final" /\ tb_wait' = 0
        /\ tb_deadline' = TimeAdd(now, TimeSub(TEST_END, now))
        /\ UNCHANGED <<new, pendCalls>>
     \/ /\ tb_pc = "rt_final"
        /\ tb_pc' = "stopped" /\ tb_wait' = 0
        /\ UNCHANGED <<new, tb_deadline, tb_report, pendCalls>>
  /\ runnable' = runnable \ {"tb"}
  /\ UNCHANGED <<now, cur, reg_n, reg_m, reg_od, pll_enable, lock_pc,
                 lock_deadline, clk_next, delta_events, tb_steps, period_ns, f_out_mhz,
                 write_check,
                 writers, sim_error, obsDev>>

\* ---- kernel: update phase and delta notification ------------------------
UpdateDelta ==
  /\ runnable = {} /\ ~sim_error
  /\ new # cur \/ delta_events # {}
  /\ LET posedge == ~cur.clk /\ new.clk
         resetChg == new.reset # cur.reset
         resetRise == ~cur.reset /\ new.reset
         \* pll_locked.posedge_event() ends the wait of run_test
         tbEvent == tb_pc = "rt_observe" /\ ~cur.locked /\ new.locked
     IN  /\ cur' = new
         /\ runnable' =
              IF tb_pc = "stopped" THEN {}
              ELSE
              (IF "clk_edge" \in delta_events THEN {"clk"} ELSE {})
              \cup (IF posedge \/ resetChg THEN {"bus"} ELSE {})
              \cup (IF lock_pc = "wait_static"
                        /\ (resetChg \/ "start" \in delta_events)
                      THEN {"lock"} ELSE {})
              \cup (IF (posedge /\ tb_wait = 1) \/ tbEvent
                      THEN {"tb"} ELSE {})
         /\ tb_deadline' = IF tbEvent THEN NoTime ELSE tb_deadline
         /\ tb_wait' = IF posedge /\ tb_wait > 0 THEN tb_wait - 1 ELSE tb_wait
         /\ delta_events' = {}
         /\ roseNow' = (roseNow \/ (~cur.locked /\ new.locked))
         /\ rstNow' = (rstNow \/ resetRise)
         /\ rstPhase' = IF resetChg
                          THEN (IF new.reset THEN "asserted" ELSE "released")
                          ELSE rstPhase
         /\ wrSinceRst' = IF resetChg THEN FALSE ELSE wrSinceRst
         /\ atRst' = IF resetRise
                       THEN [dirty |-> reg_n # 0 \/ reg_m # 0 \/ reg_od # 0
                                        \/ pll_enable,
                             locked |-> cur.locked]
                       ELSE atRst
         /\ distEn' = (distEn \/ (resetRise /\ enT # NoTime))
         /\ distAtt' = (distAtt \/ (resetRise /\ attT # NoTime))
         /\ rstInAtt' = (rstInAtt \/ (resetRise /\ InWindow(attT)))
         /\ lockedChg' = IF new.locked # cur.locked THEN lockedChg + 1
                                                     ELSE lockedChg
         /\ pendEn' = IF resetRise THEN {} ELSE pendEn
         /\ firstEn' = IF resetRise THEN NoTime ELSE firstEn
         /\ ref' = RefDelta(ref, posedge, resetChg, tb_pc = "stopped", new, now)
  /\ UNCHANGED <<now, new, reg_n, reg_m, reg_od, pll_enable, lock_pc,
                 lock_deadline, clk_next, tb_pc, tb_steps, tb_report, period_ns, f_out_mhz,
                 write_check, writers,
                 sim_error, lastBus, enT, attT, disInWin, lastExp, attFrom,
                 enTimes, pendCalls, ctrlNow>>

\* ---- kernel: advance simulated time to the next timed notification ------
TimedWakes ==
  (IF clk_next # NoTime THEN {clk_next} ELSE {})
  \cup (IF lock_pc = "wait_timed" THEN {lock_deadline} ELSE {})
  \cup (IF tb_deadline # NoTime THEN {tb_deadline} ELSE {})

\* a recorded decode time is dropped once its window [t, t + 500] is past
Aged(t, tnew) == IF t # NoTime /\ tnew > t + LOCK_DELAY THEN NoTime ELSE t

\* what the kernel may do with the earliest timed notification t. A
\* notification time before the current time (left by a wrapped sc_time) is
\* outside what the kernel defines: depending on its version the kernel
\* aborts on its time-step assertion, triggers the notification without
\* moving the time, or takes t as the new current time
TimeStepChoices(t) ==
  IF t < now THEN {"abort", "immediate", "backwards"} ELSE {"advance"}

\* the kernel advances time while a timed notification is left, sc_stop() has
\* not been called and the time explored is within limit
AdvanceTimeTo(limit) ==
  /\ InstantEnd
  /\ tb_pc # "stopped"
  /\ TimedWakes # {}
  /\ LET t == Min(TimedWakes)
     IN  /\ t <= limit
         /\ \E c \in TimeStepChoices(t) :
              IF c = "abort"
                THEN /\ sim_error' = TRUE
                     /\ UNCHANGED <<now, runnable, clk_next, tb_deadline, roseNow,
                                    enT, distEn, attT, distAtt, rstInAtt,
                                    lockedChg, ref, pendEn, enTimes, firstEn,
                                    pendCalls, ctrlNow, rstNow>>
                ELSE LET tn == IF c = "immediate" THEN now ELSE t
                     IN  /\ sim_error' = FALSE
                         /\ now' = tn
                         /\ runnable' =
                              (IF clk_next = t THEN {"clk"} ELSE {})
                              \cup (IF lock_pc = "wait_timed" /\ lock_deadline = t
                                      THEN {"lock"} ELSE {})
                              \cup (IF tb_deadline = t THEN {"tb"} ELSE {})
                         /\ clk_next' = IF clk_next = t THEN NoTime ELSE clk_next
                         /\ tb_deadline' = IF tb_deadline = t THEN NoTime
                                                              ELSE tb_deadline
                         /\ roseNow' = FALSE
                         /\ enT' = Aged(enT, tn)
                         /\ distEn' = (distEn /\ Aged(enT, tn) # NoTime)
                         /\ attT' = Aged(attT, tn)
                         /\ distAtt' = (distAtt /\ Aged(attT, tn) # NoTime)
                         /\ rstInAtt' = (rstInAtt /\ Aged(attT, tn) # NoTime)
                         /\ lockedChg' = 0
                         /\ ctrlNow' = FALSE
                         /\ rstNow' = FALSE
                         /\ ref' = RefAdvance(ref, cur, t)
                         /\ pendEn' = {e \in pendEn : tn <= e + LOCK_DELAY}
                         /\ enTimes' = {e \in enTimes : tn <= e + LOCK_DELAY}
                         /\ firstEn' = IF firstEn \notin {NoTime, Past}
                                           /\ tn >= firstEn + LOCK_DELAY
                                          THEN Past ELSE firstEn
                         /\ pendCalls' = SelectSeq(pendCalls, LAMBDA pc :
                                                     tn <= pc.t + CLK_PERIOD)
  /\ UNCHANGED <<cur, new, reg_n, reg_m, reg_od, pll_enable, lock_pc,
                 lock_deadline, delta_events, tb_pc, tb_wait, tb_steps,
                 tb_report, period_ns, f_out_mhz, write_check, writers, lastBus,
                 disInWin, rstPhase, wrSinceRst, atRst, lastExp, attFrom>>

AdvanceTime == AdvanceTimeTo(MaxTime)

\* the device and the kernel
Device ==
  \/ BusProcess
  \/ LockingProcess
  \/ ClockEdge
  \/ UpdateDelta
  \/ AdvanceTime

\* control writes and reset changes at chosen distances
NextLock == Device \/ Stimulus(<<>>, LockOps, LockWaits, MaxLockSteps)
SpecLock == Init /\ [][NextLock]_vars

\* register writes, control writes and reset changes in consecutive cycles
NextReg == Device \/ Stimulus(<<>>, RegOps, RegWaits, MaxRegSteps)
SpecReg == Init /\ [][NextReg]_vars

\* the stimulus of run_test, with one or five cycles between its operations
NextSeq == Device \/ Stimulus(SeqScript, RegOps, SeqWaits, Len(SeqScript))
SpecSeq == Init /\ [][NextSeq]_vars

\* run_test as written, up to sc_stop()
RunLimit == TEST_TIMEOUT + MaxTime
NextRun ==
  \/ BusProcess
  \/ LockingProcess
  \/ ClockEdge
  \/ UpdateDelta
  \/ AdvanceTimeTo(RunLimit)
  \/ RunTest({n_val}, {m_val}, {od_val}, {1})
SpecRun == Init /\ [][NextRun]_vars

\* run_test with other values: zero dividers, and a control value that does
\* not enable the PLL, so that the lock is never observed
DivVals == {0, 1}
MulVals == {0, m_val}
CtrlVals == {0, 1}
NextTest ==
  \/ BusProcess
  \/ LockingProcess
  \/ ClockEdge
  \/ UpdateDelta
  \/ AdvanceTimeTo(RunLimit)
  \/ RunTest(DivVals, MulVals, DivVals, CtrlVals)
SpecTest == Init /\ [][NextTest]_vars

\* control writes and reset changes at distances shorter than the lock
\* delay: an enable can fall inside the timed wait of an earlier attempt and
\* be followed by another one after that wait has expired
RelockOps ==
  { Wr(PLL_REG_CTRL_ADDR, 1), Wr(PLL_REG_CTRL_ADDR, 0), Rst(TRUE), Rst(FALSE),
    Idle }
RelockWaits == {1, 39}
NextRelock == Device \/ Stimulus(<<>>, RelockOps, RelockWaits, MaxLockSteps)
SpecRelock == Init /\ [][NextRelock]_vars

\* control writes, reset changes and a divider write, around the expiry
TuneOps == LockOps \cup {Wr(PLL_REG_M_ADDR, m_val)}
NextTune == Device \/ Stimulus(<<>>, TuneOps, LockWaits, MaxLockSteps)
SpecTune == Init /\ [][NextTune]_vars

\* divider writes before and after the enable: the values of run_test, and
\* a second value of N
DiagOps ==
  { Wr(PLL_REG_N_ADDR, n_val), Wr(PLL_REG_N_ADDR, n_val + 1),
    Wr(PLL_REG_M_ADDR, m_val), Wr(PLL_REG_OD_ADDR, od_val),
    Wr(PLL_REG_CTRL_ADDR, 1), Rst(TRUE), Rst(FALSE) }
NextDiag == Device \/ Stimulus(<<>>, DiagOps, RegWaits, MaxLockSteps)
SpecDiag == Init /\ [][NextDiag]_vars

\* run_test with 32-bit data that do not fit the 8-bit registers
WideVals == {2 ^ REG_WIDTH - 1, 2 ^ REG_WIDTH, 300, 2 ^ (2 * REG_WIDTH) - 1}
NextWide ==
  \/ BusProcess
  \/ LockingProcess
  \/ ClockEdge
  \/ UpdateDelta
  \/ AdvanceTimeTo(RunLimit)
  \/ RunTest(WideVals, WideVals, WideVals, {1})
SpecWide == Init /\ [][NextWide]_vars

\* ---- properties ----------------------------------------------------------
\* bus_process has just run: it was runnable and is no longer
BusRan == "bus" \in runnable /\ "bus" \notin runnable'

Mapped ==
  {PLL_REG_N_ADDR, PLL_REG_M_ADDR, PLL_REG_OD_ADDR, PLL_REG_CTRL_ADDR}

RegsClear == reg_n = 0 /\ reg_m = 0 /\ reg_od = 0 /\ pll_enable = FALSE

\* C1: after reset and the writes N=1, M=32, OD=1, CTRL=1 (CTRL=1 decoded at
\* enT, nothing written and no reset afterwards), locked is false at the end
\* of every instant of [enT, enT+500) and goes false -> true at enT+500.
C1_LockAfterDelay ==
  (InstantEnd /\ enT # NoTime /\ ~distEn
     /\ reg_n = 1 /\ reg_m = 32 /\ reg_od = 1)
  => /\ now < enT + LOCK_DELAY => cur.locked = FALSE
     /\ now = enT + LOCK_DELAY => (cur.locked = TRUE /\ roseNow)

C1_Witness ==
  /\ InstantEnd /\ enT # NoTime /\ ~distEn /\ now = enT + LOCK_DELAY
  /\ reg_n = 1 /\ reg_m = 32 /\ reg_od = 1 /\ rstPhase = "released"
  /\ cur.locked = TRUE /\ roseNow

\* C2 as stated: for every CTRL=1 decode at enT, in any device state, with no
\* disable decode and no reset in [enT, enT+500], locked is false at the end
\* of every instant of [enT, enT+500) and is asserted at enT+500.
C2_AnyState ==
  (enT # NoTime /\ ~distEn)
  => /\ (InstantEnd /\ now < enT + LOCK_DELAY) => cur.locked = FALSE
     /\ (now = enT + LOCK_DELAY /\ cur.clk = TRUE) => roseNow

\* C2 amended: the same, for every CTRL=1 decode at attT that finds
\* locking_process outside the 500 ns wait of an earlier attempt (idle or
\* locked).
C2_OutsideWait ==
  (attT # NoTime /\ ~distAtt)
  => /\ (InstantEnd /\ now < attT + LOCK_DELAY) => cur.locked = FALSE
     /\ (now = attT + LOCK_DELAY /\ cur.clk = TRUE) => roseNow

C2_Witness ==
  /\ InstantEnd /\ attT # NoTime /\ ~distAtt /\ now = attT + LOCK_DELAY
  /\ roseNow /\ cur.locked = TRUE /\ attT > LOCK_DELAY

\* C3: when a CTRL=0 write is decoded strictly inside the window of the
\* latest CTRL=1 decode and no enabling write follows, locked is false at
\* the end of the instant enT+500 and of every later instant.
C3_DisableAborts ==
  (InstantEnd /\ disInWin /\ (enT = NoTime \/ now >= enT + LOCK_DELAY))
  => cur.locked = FALSE

C3_Witness ==
  /\ InstantEnd /\ disInWin /\ enT # NoTime /\ attT = enT
  /\ now = enT + LOCK_DELAY /\ cur.locked = FALSE /\ cur.reset = FALSE

\* C4: when reset becomes true strictly inside the window of a lock attempt
\* started at attT, locked is false at the end of that instant and no
\* false -> true transition of locked happens at attT+500, whatever follows.
C4_ResetAbandonsWait ==
  /\ (InstantEnd /\ InWindow(attT) /\ cur.reset = TRUE) => cur.locked = FALSE
  /\ ~(rstInAtt /\ now = attT + LOCK_DELAY /\ roseNow)

\* C5: once reset has been asserted and processed, and after it is released
\* until the first write is decoded, the registers and pll_enable are
\* {0, 0, 0, false}.
C5_ResetClears ==
  /\ (rstPhase = "asserted" /\ "bus" \notin runnable) => RegsClear
  /\ (rstPhase = "released" /\ ~wrSinceRst) => RegsClear

C5_Witness ==
  /\ rstPhase = "released" /\ ~wrSinceRst /\ atRst.dirty /\ InstantEnd

\* C6: at the end of every instant at which reset is true, locked is false,
\* whatever the lock state was when reset became true.
C6_ResetForcesLow ==
  (InstantEnd /\ cur.reset = TRUE) => cur.locked = FALSE

C6_Witness ==
  /\ InstantEnd /\ cur.reset = TRUE /\ atRst.locked /\ cur.locked = FALSE

\* C7: an invocation of bus_process that decodes a write to an address
\* outside the register map changes no register, notifies no event and does
\* not write locked.
C7_UnmappedNoOp ==
  [][(BusRan /\ cur.reset = FALSE /\ cur.bus_we = TRUE
        /\ cur.bus_addr \notin Mapped)
     => UNCHANGED <<reg_n, reg_m, reg_od, pll_enable, delta_events, new,
                    writers>>]_vars

C7_Witness ==
  /\ lastBus = "unmapped" /\ "bus" \notin runnable
  /\ cur.bus_addr = UnmappedAddr /\ reg_m = 32

\* C8: only locking_process ever writes the signal locked.
C8_SingleWriter == writers \subseteq {"lock"}

\* C9: an invocation of bus_process that reads reset true clears the
\* registers and pll_enable and decodes nothing, also when write-enable is
\* true: no event notified, no signal written.
C9_ResetPriority ==
  [][(BusRan /\ cur.reset = TRUE)
     => /\ reg_n' = 0 /\ reg_m' = 0 /\ reg_od' = 0 /\ pll_enable' = FALSE
        /\ UNCHANGED <<delta_events, new, writers>>]_vars

C9_Witness ==
  /\ lastBus = "reset_we" /\ "bus" \notin runnable /\ RegsClear
  /\ cur.bus_addr = PLL_REG_CTRL_ADDR /\ cur.bus_wdata = 1

\* the decode of a CTRL=1 write sets pll_enable and leaves the start event
\* delta-notified
EnableStep ==
  (BusRan /\ cur.reset = FALSE /\ cur.bus_we = TRUE
     /\ cur.bus_addr = PLL_REG_CTRL_ADDR /\ cur.bus_wdata = 1)
  => (pll_enable' = TRUE /\ "start" \in delta_events')

InSequence == lock_pc = "wait_timed" /\ lock_deadline = now + LOCK_DELAY

\* C10 as stated: a CTRL=1 decode sets pll_enable and notifies the start
\* event, and a locking_process that was waiting on its sensitivity list is
\* inside the lock sequence before time advances.
C10_EntersSameInstant ==
  /\ [][EnableStep]_vars
  /\ []((InstantEnd /\ attT = now) => InSequence)

\* C10 amended: the same, when reset is not true at that instant.
C10_EntersUnlessReset ==
  /\ [][EnableStep]_vars
  /\ []((InstantEnd /\ attT = now /\ cur.reset = FALSE) => InSequence)

C10_Witness ==
  /\ InstantEnd /\ attT = now /\ cur.reset = FALSE /\ InSequence
  /\ pll_enable = TRUE

\* C11: an invocation of bus_process that decodes a write to CTRL with data
\* other than 1 leaves pll_enable false and the value false requested for
\* locked, so that locked is false from the next round, also when it was true.
C11_DisableForcesLow ==
  [][(BusRan /\ cur.reset = FALSE /\ cur.bus_we = TRUE
        /\ cur.bus_addr = PLL_REG_CTRL_ADDR /\ cur.bus_wdata # 1)
     => (pll_enable' = FALSE /\ new'.locked = FALSE)]_vars

\* C12 as stated: in the scenario of run_test, locked is asserted at 590 ns.
C12_LockAt590 ==
  (InstantEnd /\ now = 590) => (cur.locked = TRUE /\ roseNow)

\* C12 amended: in the scenario of run_test, locked is asserted at 600 ns:
\* it goes false -> true at 600 ns and at no other time.
C12_LockAt600 ==
  /\ (InstantEnd /\ now = 600) => (cur.locked = TRUE /\ roseNow)
  /\ roseNow => now = 600

C12_Witness ==
  /\ InstantEnd /\ now = 600 /\ cur.locked = TRUE /\ roseNow
  /\ tb_report = "SUCCESS" /\ reg_n = n_val /\ reg_m = m_val /\ reg_od = od_val

\* the start event becomes pending
StartNotified == "start" \notin delta_events /\ "start" \in delta_events'

\* C13: in the scenario of run_test the start event is notified at 100 ns
\* (the decode of CTRL=1) and at no other time, locked is low before 600 ns
\* and goes false -> true at exactly 600 ns.
C13_NotifyAt100LockAt600 ==
  /\ [][StartNotified => (now = 100 /\ lastBus' = "EN")]_vars
  /\ []((InstantEnd /\ now = 100) => (enT = 100 /\ InSequence))
  /\ [](now < 600 => (cur.locked = FALSE /\ ~roseNow))
  /\ []((now = 600 /\ "lock" \notin runnable /\ cur.clk = TRUE) => roseNow)

C13_Witness ==
  /\ now = 600 /\ roseNow /\ cur.locked = TRUE /\ enT = 100
  /\ lock_pc = "wait_static" /\ pll_enable

C16_TieBreakDeterminism ==
  /\ InstantEnd =>
       /\ reg_n = ref.n /\ reg_m = ref.m /\ reg_od = ref.od
       /\ pll_enable = ref.en
       /\ cur.locked = ref.lcur /\ ref.lnew = ref.lcur
       /\ lockedChg = ref.chg
       /\ lock_pc = ref.pc /\ lock_deadline = ref.dl
       /\ ~ref.start /\ ~ref.err
  /\ sim_error => ref.err

\* a round in which both processes are runnable and race on pll_enable:
\* locking_process has run first and found pll_enable false, where in the
\* reference order it has found it true and entered the lock sequence
C16_Witness ==
  /\ "bus" \in runnable /\ "lock" \notin runnable /\ ~sim_error
  /\ lock_pc = "wait_static" /\ pll_enable = FALSE
  /\ ref.pc = "wait_timed" /\ ref.en /\ ref.dl = now + LOCK_DELAY

\* C17: in run_test with any dividers, zero included, a lock attempt whose
\* delay expires with pll_enable true asserts locked at 600 ns, the time at
\* which it does for N=1, M=32, OD=1, and locking_process is back in its
\* wait() with the diagnostic printed.
C17_LockWhateverDividers ==
  (now = 600 /\ pll_enable = TRUE /\ "lock" \notin runnable)
  => /\ ~sim_error /\ new.locked = TRUE
     /\ lock_pc = "wait_static" /\ period_ns # NoPeriod
     /\ InstantEnd => (cur.locked = TRUE /\ roseNow)

C17_Witness ==
  /\ InstantEnd /\ now = 600 /\ pll_enable = TRUE
  /\ reg_n = 0 /\ reg_od = 0 /\ reg_m = 0
  /\ cur.locked = TRUE /\ roseNow /\ lock_pc = "wait_static"
  /\ period_ns.kind = "nan"

\* C18: the wait of run_test that starts at 100 ns ends at the first rise of
\* pll_locked or at 100 + 20000 ns, whichever comes first; SUCCESS is
\* reported at the instant pll_locked rose inside that window, FAILED is
\* reported at the deadline and only when locked was never asserted.
C18_ObserveOrTimeout ==
  /\ [][tb_report' # tb_report =>
          IF tb_report' = "SUCCESS"
            THEN roseNow /\ cur.locked = TRUE
                 /\ 100 < now /\ now < 100 + TEST_TIMEOUT
            ELSE tb_report' = "FAILED" /\ now = 100 + TEST_TIMEOUT
                 /\ cur.locked = FALSE /\ period_ns = NoPeriod]_vars
  /\ [](tb_pc = "rt_observe" =>
          (now <= 100 + TEST_TIMEOUT /\ (InstantEnd => cur.locked = FALSE)))
  /\ []((InstantEnd /\ cur.locked = TRUE) => tb_report = "SUCCESS")
  /\ []((InstantEnd /\ now >= 100 + TEST_TIMEOUT) => tb_report # "none")

C18_Witness ==
  /\ tb_report = "FAILED" /\ tb_pc = "rt_final" /\ now = 100 + TEST_TIMEOUT
  /\ cur.locked = FALSE /\ pll_enable = FALSE

C20_ResetPreemptsWait ==
  /\ (InstantEnd /\ rstInAtt /\ InWindow(attT)) => lock_pc = "wait_static"
  /\ (InstantEnd /\ rstInAtt /\ InWindow(attT) /\ cur.reset = FALSE
        /\ enT = now)
     => InSequence

\* locking_process has just run
LockRan == "lock" \in runnable /\ "lock" \notin runnable'

\* C21: when the timed wait expires with pll_enable false, locking_process
\* writes nothing to locked and is back in its wait(); a CTRL=1 write decoded
\* afterwards at attT (no disable and no reset in [attT, attT+500]) starts a
\* lock sequence at attT: locked is false at the end of every instant of
\* [attT, attT+500) and goes false -> true at attT+500.
C21_SkippedExpiryThenRelock ==
  /\ [][(LockRan /\ lock_pc = "wait_timed" /\ pll_enable = FALSE)
        => (new' = new /\ writers' = writers /\ lock_pc' = "wait_static"
              /\ lock_deadline' = NoTime)]_vars
  /\ []((attT # NoTime /\ ~distAtt /\ attFrom = "skipped")
        => /\ (InstantEnd /\ now = attT) => InSequence
           /\ (InstantEnd /\ now < attT + LOCK_DELAY) => cur.locked = FALSE
           /\ (now = attT + LOCK_DELAY /\ cur.clk = TRUE) => roseNow)

C21_Witness ==
  /\ InstantEnd /\ attT # NoTime /\ ~distAtt /\ attFrom = "skipped"
  /\ lastExp = "asserted" /\ now = attT + LOCK_DELAY
  /\ attT > LOCK_DELAY + CLK_PERIOD
  /\ cur.locked = TRUE /\ roseNow

\* C22: a CTRL=1 write decoded at attT while locked is true (no disable and
\* no reset in [attT, attT+500]) makes locked fall at attT: locked is false
\* at the end of every instant of [attT, attT+500) and goes false -> true
\* again at attT+500.
C22_RelockFromLocked ==
  (attT # NoTime /\ ~distAtt /\ attFrom = "locked")
  => /\ (InstantEnd /\ now = attT) => (lockedChg >= 1 /\ InSequence)
     /\ (InstantEnd /\ now < attT + LOCK_DELAY) => cur.locked = FALSE
     /\ (now = attT + LOCK_DELAY /\ cur.clk = TRUE) => roseNow

C22_Witness ==
  /\ InstantEnd /\ attT # NoTime /\ ~distAtt /\ attFrom = "locked"
  /\ now = attT + LOCK_DELAY /\ cur.locked = TRUE /\ roseNow
  /\ lockedChg = 1

Dividers == {PLL_REG_N_ADDR, PLL_REG_M_ADDR, PLL_REG_OD_ADDR}

\* C23: an invocation of bus_process that decodes a write to N, M or OD
\* stores the data in the addressed register and leaves the two other
\* registers, pll_enable, the start event and locked as they are.
C23_DividerWriteFrame ==
  [][(BusRan /\ cur.reset = FALSE /\ cur.bus_we = TRUE
        /\ cur.bus_addr \in Dividers)
     => /\ reg_n' = IF cur.bus_addr = PLL_REG_N_ADDR
                      THEN ToReg(cur.bus_wdata) ELSE reg_n
        /\ reg_m' = IF cur.bus_addr = PLL_REG_M_ADDR
                      THEN ToReg(cur.bus_wdata) ELSE reg_m
        /\ reg_od' = IF cur.bus_addr = PLL_REG_OD_ADDR
                       THEN ToReg(cur.bus_wdata) ELSE reg_od
        /\ UNCHANGED <<pll_enable, delta_events, new, writers>>]_vars

\* M has been written after N and CTRL: reg_n and pll_enable are kept
C23_Witness ==
  /\ lastBus = "M" /\ "bus" \notin runnable /\ cur.bus_addr = PLL_REG_M_ADDR
  /\ reg_m = 32 /\ reg_n = 1 /\ reg_od = 0 /\ pll_enable = TRUE

\* C24: a decoded write of d to N, M or OD leaves d mod 256 in the addressed
\* register: d itself when d <= 255, the low 8 bits of d otherwise (0 for
\* d = 256); the registers never hold more than 8 bits.
C24_StoresLowByte ==
  /\ [][(BusRan /\ cur.reset = FALSE /\ cur.bus_we = TRUE
          /\ cur.bus_addr \in Dividers)
       => LET d == cur.bus_wdata
              r == CASE cur.bus_addr = PLL_REG_N_ADDR -> reg_n'
                     [] cur.bus_addr = PLL_REG_M_ADDR -> reg_m'
                     [] OTHER -> reg_od'
          IN  /\ r \in 0 .. 255
              /\ \E q \in 0 .. (d \div 256) : d = 256 * q + r
              /\ d <= 255 => r = d
              /\ d = 256 => r = 0]_vars
  /\ [](reg_n \in 0 .. 255 /\ reg_m \in 0 .. 255 /\ reg_od \in 0 .. 255)

\* 256, 65535 and 300 have been written to N, M and OD
C24_Witness ==
  /\ lastBus = "OD" /\ "bus" \notin runnable /\ cur.bus_wdata = 300
  /\ reg_od = 44 /\ reg_m = 255 /\ reg_n = 0

\* bus_process has just run and has decoded a write
DecodeStep == BusRan /\ lastBus' \notin {"reset", "reset_we", "idle"}

\* C25: in run_test every call of write_to_pll is decoded exactly once, at the
\* rising clock edge that follows the call: each decode is the decode of the
\* oldest call not yet decoded, made one clock period before, with its
\* address and data; time does not pass the edge after a call with the call
\* undecoded; and once the last call has returned, write-enable is low at the
\* end of the instant, so that the next edge decodes nothing.
C25_EachWriteDecodedOnce ==
  /\ [][DecodeStep
        => (IsOldestCall /\ cur.clk = TRUE /\ pendCalls' = Tail(pendCalls))]_vars
  /\ [][now' > now
        => (pendCalls = <<>> \/ now' <= Head(pendCalls).t + CLK_PERIOD)]_vars
  /\ [](Len(pendCalls) <= 2)
  /\ []((InstantEnd /\ tb_pc \in {"rt_observe", "rt_final", "stopped"})
        => (cur.bus_we = FALSE /\ pendCalls = <<>>))

\* the four calls of run_test have been decoded, the last one at 100 ns
C25_Witness ==
  /\ InstantEnd /\ tb_pc = "rt_observe" /\ now = 100 /\ lastBus = "EN"
  /\ reg_n = n_val /\ reg_m = m_val /\ reg_od = od_val /\ pll_enable = TRUE
  /\ pendCalls = <<>> /\ cur.bus_we = FALSE

\* C26: reg_n, reg_m, reg_od and pll_enable change only in a step of
\* bus_process; no step of locking_process changes any of them.
C26_ConfigOwnedByBus ==
  /\ [][(reg_n' # reg_n \/ reg_m' # reg_m \/ reg_od' # reg_od
          \/ pll_enable' # pll_enable) => BusRan]_vars
  /\ [][LockRan => UNCHANGED <<reg_n, reg_m, reg_od, pll_enable>>]_vars

\* locking_process has gone through a whole lock sequence on a configured
\* device, and the configuration is as bus_process left it
C26_Witness ==
  /\ InstantEnd /\ lastExp = "asserted" /\ roseNow /\ cur.locked = TRUE
  /\ reg_n = 1 /\ reg_m = 32 /\ pll_enable = TRUE

RestartedSince(e) == attT # NoTime /\ attT > e

\* C28 as stated: for every CTRL=1 decode at T, whatever the state of the
\* device and of locking_process at T, with no disable decode and no
\* reset = true in [T, T+500]: locked is true at T+500, read as the clocked
\* processes read it in the round of the clock edge of T+500.
C28_EnableNeverLost ==
  \A e \in pendEn :
    (now = e + LOCK_DELAY /\ "bus" \in runnable /\ cur.clk = TRUE)
    => cur.locked = TRUE

\* C28 amended: the same, when no CTRL=1 decode after T has started a new
\* lock sequence; locked is then true at the clock edge of T+500 and at the
\* end of that instant.
C28_EnableKeptUnlessRestart ==
  \A e \in pendEn :
    (now = e + LOCK_DELAY /\ ~RestartedSince(e))
    => /\ ("bus" \in runnable /\ cur.clk = TRUE) => cur.locked = TRUE
       /\ InstantEnd => cur.locked = TRUE

\* a CTRL=1 write was decoded while locking_process was inside the timed wait
\* of an earlier attempt: 500 ns later locked is true, and did not rise then
C28_Witness ==
  /\ InstantEnd /\ cur.locked = TRUE /\ ~roseNow
  /\ \E e \in pendEn : now = e + LOCK_DELAY /\ ~RestartedSince(e)

\* C29: at the end of every instant, locked true implies pll_enable true and
\* reset false.
C29_LockedImpliesEnabled ==
  (InstantEnd /\ cur.locked = TRUE) => (pll_enable = TRUE /\ cur.reset = FALSE)

\* locked is true after a reset and a disable have each forced it low
C29_Witness ==
  /\ InstantEnd /\ cur.locked = TRUE /\ pll_enable = TRUE /\ cur.reset = FALSE
  /\ rstPhase = "released" /\ "bus" \in writers

\* every false -> true transition of locked comes 500 ns after a CTRL=1 decode
RiseFollowsEnable == roseNow => (now - LOCK_DELAY) \in enTimes

\* C30: every false -> true transition of locked comes exactly 500 ns after an
\* instant at which a CTRL=1 write was decoded; and at the end of no instant
\* is locked true before 500 ns have gone by since the first CTRL=1 decode
\* that followed construction or the latest assertion of reset.
C30_RiseOnlyAfterEnable ==
  /\ RiseFollowsEnable
  /\ (InstantEnd /\ cur.locked = TRUE)
       => (firstEn = Past \/ (firstEn # NoTime /\ now >= firstEn + LOCK_DELAY))


\* the update phase takes locked from true to false
LockedFalls == cur.locked = TRUE /\ cur'.locked = FALSE

\* C31: once asserted, locked stays true: locked goes from true to false only
\* at an instant where bus_process decodes a CTRL write (a disable, or an
\* enable that restarts the lock sequence) or where reset becomes true
C31_FallsOnlyOnCtrlOrReset ==
  /\ [][LockedFalls => (ctrlNow' \/ rstNow')]_vars
  /\ [][(cur.locked = TRUE /\ now' # now) => cur'.locked = TRUE]_vars

\* locked, asserted at an earlier instant, has just fallen at the instant of
\* a decoded CTRL write
C31_Witness ==
  /\ InstantEnd /\ lockedChg = 1 /\ ~roseNow /\ cur.locked = FALSE
  /\ ctrlNow /\ ~rstNow

ExpiryWithDividers ==
  /\ lock_pc = "wait_timed" /\ lock_pc' = "wait_static"
  /\ pll_enable = TRUE /\ reg_n * reg_od # 0 /\ reg_m # 0

\* C33: on a successful lock the diagnostic is F_out = 25 * reg_m /
\* (reg_n * reg_od) MHz and period = 1000 / F_out ns, on the register values
\* of the expiry instant; N = 1, M = 32, OD = 1 give F_out = 800 and
\* period = 1.25
C33_DiagnosticFromRegisters ==
  [][ExpiryWithDividers =>
       /\ new'.locked = TRUE /\ ~sim_error'
       /\ f_out_mhz'.kind = "finite" /\ period_ns'.kind = "finite"
       /\ f_out_mhz'.num * (reg_n * reg_od) = 25 * reg_m * f_out_mhz'.den
       /\ period_ns'.num * f_out_mhz'.num = 1000 * f_out_mhz'.den * period_ns'.den
       /\ (reg_n = 1 /\ reg_m = 32 /\ reg_od = 1)
            => /\ f_out_mhz'.num = 800 * f_out_mhz'.den
               /\ 4 * period_ns'.num = 5 * period_ns'.den]_vars

\* locked has risen on N = 1, M = 32, OD = 1, all three written inside the
\* timed wait (the enable was the first write, decoded at the first clock
\* edge after 0); the period printed is 1.25
C33_Witness ==
  /\ InstantEnd /\ roseNow /\ cur.locked = TRUE
  /\ reg_n = 1 /\ reg_m = 32 /\ reg_od = 1
  /\ 4 * period_ns.num = 5 * period_ns.den
  /\ f_out_mhz.num = 800 * f_out_mhz.den
  /\ enT = CLK_PERIOD /\ now = enT + LOCK_DELAY
====
